---- MODULE Spec2Model ----
(***************************************************************************)
(* Model of libzfs_core-sys/zfscore.h: the declarations through which a    *)
(* caller reaches the libzfs_core library.  The header holds two typedefs, *)
(* an incomplete struct, two enumerations and 24 function prototypes; it   *)
(* has no function body and no object.  The model is the call boundary the *)
(* declarations describe: a caller picks a declared function and arguments *)
(* of the declared types, the call reaches the library, and the library's  *)
(* results come back through the declared return and out-parameter types.  *)
(* What the library does to its datasets is not part of the header and is  *)
(* not modelled: its results are chosen nondeterministically.              *)
(***************************************************************************)
EXTENDS Integers, Sequences, FiniteSets

VARIABLES
    call,       \* the call the caller made last: [fn, args]
    libCalls,   \* the calls that reached the library for it
    nCaller,    \* number of calls the caller has made
    nLib,       \* number of calls that have reached the library
    result      \* what came back: [ret, libRet, out, libOut]

vars == <<call, libCalls, nCaller, nLib, result>>

----------------------------------------------------------------------------
(* Bounds of the model *)

MaxCalls == 3       \* calls in one run
MaxNames == 2       \* distinct strings a const char * / char * may point to
MaxNvlists == 1     \* distinct nvlist_t objects the caller holds

(* Data model of the build: object sizes in bytes *)

SizeofInt == 4
SizeofLongLong == 8
U64Bytes == 8       \* a 64-bit quantity, as the library writes it

----------------------------------------------------------------------------
(* Values that cross the boundary.  A value is a sign and a little-endian  *)
(* magnitude of U64Bytes bytes (a 64-bit integer does not fit TLC's 32-bit *)
(* integers); NoValue is the result of a void function.                    *)

Min(a, b) == IF a <= b THEN a ELSE b

Pad(bs, n) == [i \in 1..n |-> IF i <= Len(bs) THEN bs[i] ELSE 0]

Take(bs, n) == SubSeq(bs, 1, Min(n, Len(bs)))

RECURSIVE AddOne(_)
AddOne(bs) ==
    IF bs = <<>> THEN <<>>
    ELSE IF Head(bs) = 255 THEN <<0>> \o AddOne(Tail(bs))
    ELSE <<Head(bs) + 1>> \o Tail(bs)

\* two's complement negation of a little-endian byte string
Negate(bs) == AddOne([i \in DOMAIN bs |-> 255 - bs[i]])

NoValue == [neg |-> FALSE, mag |-> <<>>]

Val(neg, bytes) == [neg |-> neg, mag |-> Pad(bytes, U64Bytes)]

\* the bytes of value v in an object of n bytes
Encode(v, n) == IF v.neg THEN Take(Negate(v.mag), n) ELSE Take(v.mag, n)

\* the value an object of the given type holds when its storage starts with raw
Interp(type, raw) ==
    LET bs == Pad(Take(raw, type.bytes), type.bytes) IN
    IF type.bytes = 0 THEN NoValue
    ELSE IF type.signed /\ bs[type.bytes] >= 128
         THEN Val(TRUE, Negate(bs))
         ELSE Val(FALSE, bs)

----------------------------------------------------------------------------
(* Types: lines 1-5 *)

BaseType(spelling) ==
    CASE spelling = "int" -> [bytes |-> SizeofInt, signed |-> TRUE]
      [] spelling = "unsigned int" -> [bytes |-> SizeofInt, signed |-> FALSE]
      [] spelling = "long long int" -> [bytes |-> SizeofLongLong, signed |-> TRUE]
      [] spelling = "unsigned long long int" ->
             [bytes |-> SizeofLongLong, signed |-> FALSE]
      [] spelling = "void" -> [bytes |-> 0, signed |-> FALSE]

uint64_t_signed == BaseType("long long int")

\* typedef unsigned long long int uint64_t;
uint64_t == BaseType("unsigned long long int")

\* typedef int boolean_t;
boolean_t == BaseType("int")

\* struct nvlist; typedef struct nvlist nvlist_t;  (incomplete: no members)
nvlist_t == [complete |-> FALSE, members |-> <<>>]

TypeOf(spelling) ==
    CASE spelling = "uint64_t" -> uint64_t
      [] spelling = "boolean_t" -> boolean_t
      [] OTHER -> BaseType(spelling)

----------------------------------------------------------------------------
(* Enumerations: lines 6-18 *)

Plain(name) == [name |-> name, explicit |-> FALSE, init |-> 0]
Given(name, v) == [name |-> name, explicit |-> TRUE, init |-> v]

lzc_send_flags_overlap ==
    << Given("LZC_SEND_FLAG_EMBED_DATA", 1),
       Given("LZC_SEND_FLAG_LARGE_BLOCK", 3) >>

lzc_send_flags ==
    << Given("LZC_SEND_FLAG_EMBED_DATA", 1),
       Given("LZC_SEND_FLAG_LARGE_BLOCK", 2) >>

dmu_objset_type_t_swapped ==
    << Plain("DMU_OST_NONE"), Plain("DMU_OST_META"), Plain("DMU_OST_ZVOL"),
       Plain("DMU_OST_ZFS"), Plain("DMU_OST_OTHER"), Plain("DMU_OST_ANY"),
       Plain("DMU_OST_NUMTYPES") >>

dmu_objset_type_t ==
    << Plain("DMU_OST_NONE"), Plain("DMU_OST_META"), Plain("DMU_OST_ZFS"),
       Plain("DMU_OST_ZVOL"), Plain("DMU_OST_OTHER"), Plain("DMU_OST_ANY"),
       Plain("DMU_OST_NUMTYPES") >>

\* C's rule: an enumerator with an initializer has that value, the first
\* one without has 0, any other one without has its predecessor's plus one
RECURSIVE EnumValue(_, _)
EnumValue(e, i) ==
    IF e[i].explicit THEN e[i].init
    ELSE IF i = 1 THEN 0
    ELSE EnumValue(e, i - 1) + 1

EnumNames(e) == {e[i].name : i \in DOMAIN e}

Enumerator(e, name) ==
    EnumValue(e, CHOOSE i \in DOMAIN e : e[i].name = name)

EnumValues(e) == {EnumValue(e, i) : i \in DOMAIN e}

\* C's a & b and a | b on non-negative ints
RECURSIVE BitAnd(_, _)
BitAnd(a, b) ==
    IF a = 0 \/ b = 0 THEN 0
    ELSE (a % 2) * (b % 2) + 2 * BitAnd(a \div 2, b \div 2)

RECURSIVE BitOr(_, _)
BitOr(a, b) ==
    IF a = 0 THEN b
    ELSE IF b = 0 THEN a
    ELSE (IF a % 2 = 1 \/ b % 2 = 1 THEN 1 ELSE 0) + 2 * BitOr(a \div 2, b \div 2)

\* the flags argument a caller builds from a set of enumerators: f1 | f2 | ...
RECURSIVE SendFlagsArg(_)
SendFlagsArg(S) ==
    IF S = {} THEN 0
    ELSE LET f == CHOOSE f \in S : TRUE IN
         BitOr(Enumerator(lzc_send_flags, f), SendFlagsArg(S \ {f}))

\* the enumerators the receiver of a flags argument finds set: arg & f
FlagsSet(arg) ==
    {f \in EnumNames(lzc_send_flags) : BitAnd(arg, Enumerator(lzc_send_flags, f)) # 0}

----------------------------------------------------------------------------
(* Function prototypes: lines 19-42, in declared order *)

P(name, ret, params) == [name |-> name, ret |-> ret, params |-> params]

LifecycleAndDatasetPrototypes ==
    << P("libzfs_core_init", "int", <<>>),
       P("libzfs_core_fini", "void", <<>>),
       P("lzc_snapshot", "int", <<"nvlist_t *", "nvlist_t *", "nvlist_t **">>),
       P("lzc_create", "int", <<"const char *", "dmu_objset_type_t", "nvlist_t *">>),
       P("lzc_clone", "int", <<"const char *", "const char *", "nvlist_t *">>),
       P("lzc_destroy_snaps", "int", <<"nvlist_t *", "boolean_t", "nvlist_t **">>),
       P("lzc_bookmark", "int", <<"nvlist_t *", "nvlist_t **">>),
       P("lzc_get_bookmarks", "int", <<"const char *", "nvlist_t *", "nvlist_t **">>),
       P("lzc_destroy_bookmarks", "int", <<"nvlist_t *", "nvlist_t **">>) >>

HoldAndStreamPrototypes ==
    << P("lzc_snaprange_space", "int", <<"const char *", "const char *", "uint64_t *">>),
       P("lzc_hold", "int", <<"nvlist_t *", "int", "nvlist_t **">>),
       P("lzc_release", "int", <<"nvlist_t *", "nvlist_t **">>),
       P("lzc_get_holds", "int", <<"const char *", "nvlist_t **">>),
       P("lzc_send", "int",
         <<"const char *", "const char *", "int", "enum lzc_send_flags">>),
       P("lzc_receive", "int",
         <<"const char *", "nvlist_t *", "const char *", "boolean_t", "int">>),
       P("lzc_send_space", "int", <<"const char *", "const char *", "uint64_t *">>),
       P("lzc_exists", "boolean_t", <<"const char *">>) >>

ManagementPrototypes_without_list ==
    << P("lzc_rollback", "int", <<"const char *", "char *", "int">>),
       P("lzc_promote", "int", <<"const char *", "nvlist_t *", "nvlist_t **">>),
       P("lzc_rename", "int",
         <<"const char *", "const char *", "nvlist_t *", "char **">>),
       P("lzc_destroy_one", "int", <<"const char *", "nvlist_t *">>),
       P("lzc_inherit", "int", <<"const char *", "const char *", "nvlist_t *">>),
       P("lzc_set_props", "int",
         <<"const char *", "nvlist_t *", "nvlist_t *", "nvlist_t *">>) >>

ManagementPrototypes ==
    << P("lzc_rollback", "int", <<"const char *", "char *", "int">>),
       P("lzc_promote", "int", <<"const char *", "nvlist_t *", "nvlist_t **">>),
       P("lzc_rename", "int",
         <<"const char *", "const char *", "nvlist_t *", "char **">>),
       P("lzc_destroy_one", "int", <<"const char *", "nvlist_t *">>),
       P("lzc_inherit", "int", <<"const char *", "const char *", "nvlist_t *">>),
       P("lzc_set_props", "int",
         <<"const char *", "nvlist_t *", "nvlist_t *", "nvlist_t *">>),
       P("lzc_list", "int", <<"const char *", "nvlist_t *">>) >>

Prototypes ==
    LifecycleAndDatasetPrototypes \o HoldAndStreamPrototypes \o ManagementPrototypes

DeclaredNames == {Prototypes[i].name : i \in DOMAIN Prototypes}

Proto(fn) == Prototypes[CHOOSE i \in DOMAIN Prototypes : Prototypes[i].name = fn]

\* the objects (variables) the header declares: it declares none
HeaderObjects == {}

----------------------------------------------------------------------------
(* What a caller can pass for a parameter of each declared type.  Strings, *)
(* nvlists and result slots are opaque to the header: a small integer      *)
(* names the object the pointer refers to.                                 *)

Names == 1..MaxNames
Nvlists == 1..MaxNvlists
ResultSlot == {1}
Fds == {3}

ArgValues(t) ==
    CASE t \in {"const char *", "char *"} -> Names
      [] t = "nvlist_t *" -> Nvlists
      [] t \in {"nvlist_t **", "uint64_t *", "char **"} -> ResultSlot
      [] t = "int" -> Fds
      [] t = "boolean_t" -> {0, 1}
      [] t = "dmu_objset_type_t" -> EnumValues(dmu_objset_type_t)
      [] t = "enum lzc_send_flags" ->
             {SendFlagsArg(S) : S \in SUBSET EnumNames(lzc_send_flags)}

RECURSIVE ArgLists(_, _)
ArgLists(params, n) ==
    IF n = 0 THEN {<<>>}
    ELSE {Append(s, v) : s \in ArgLists(params, n - 1), v \in ArgValues(params[n])}

ArgsOf(fn) == ArgLists(Proto(fn).params, Len(Proto(fn).params))

----------------------------------------------------------------------------
(* What the library can hand back.  Its behaviour is outside the header:   *)
(* any status, any boolean, any 64-bit quantity.                           *)

StatusSamples ==
    { Val(FALSE, <<>>),                       \* 0
      Val(FALSE, <<2>>),                      \* ENOENT
      Val(TRUE, <<1>>) }                      \* -1

BoolSamples == { Val(FALSE, <<>>), Val(FALSE, <<1>>) }

U64Samples ==
    { Val(FALSE, <<>>),                                        \* 0
      Val(FALSE, <<1>>),                                       \* 1
      Val(FALSE, <<255, 255, 255, 255>>),                      \* 2^32 - 1
      Val(FALSE, <<0, 0, 0, 0, 1>>),                           \* 2^32
      Val(FALSE, <<0, 0, 0, 0, 0, 0, 0, 128>>),                \* 2^63
      Val(FALSE, <<255, 255, 255, 255, 255, 255, 255, 255>>) } \* 2^64 - 1

LibReturns(p) ==
    CASE p.ret = "int" -> StatusSamples
      [] p.ret = "boolean_t" -> BoolSamples
      [] p.ret = "void" -> {NoValue}

\* the bytes in which the library returns value v of a function
LibReturnBytes(p, v) == IF p.ret = "void" THEN <<>> ELSE Encode(v, SizeofInt)

HasU64Out(p) == \E i \in DOMAIN p.params : p.params[i] = "uint64_t *"

LibOuts(p) == IF HasU64Out(p) THEN U64Samples ELSE {NoValue}

ReturnValueCollapsed(p, raw) ==
    LET v == Interp(TypeOf(p.ret), raw) IN
    IF v = NoValue \/ v = Val(FALSE, <<>>) THEN v ELSE Val(TRUE, <<1>>)

\* the value the caller receives: the returned bytes read as the declared type
ReturnValue(p, raw) == Interp(TypeOf(p.ret), raw)

\* the value the caller reads from its uint64_t after the library wrote raw to it
OutValue(p, raw) == IF HasU64Out(p) THEN Interp(uint64_t, raw) ELSE NoValue

ForwardWithRetry(c) == <<c, c>>

\* a call of a declared function is a call of the library's function of that
\* name: the header gives the function no body of its own
Forward(c) == <<c>>

----------------------------------------------------------------------------
(* The state machine *)

NoCall == [fn |-> "none", args |-> <<>>]

Init ==
    /\ call = NoCall
    /\ libCalls = <<>>
    /\ nCaller = 0
    /\ nLib = 0
    /\ result = [ret |-> NoValue, libRet |-> NoValue, out |-> NoValue, libOut |-> NoValue]

Call(fn, args) ==
    /\ nCaller < MaxCalls
    /\ fn \in DeclaredNames
    /\ nCaller' = nCaller + 1
    /\ call' = [fn |-> fn, args |-> args]
    /\ libCalls' = Forward([fn |-> fn, args |-> args])
    /\ nLib' = nLib + Len(libCalls')
    /\ \E v \in LibReturns(Proto(fn)), w \in LibOuts(Proto(fn)) :
          result' = [ ret |-> ReturnValue(Proto(fn), LibReturnBytes(Proto(fn), v)),
                      libRet |-> v,
                      out |-> OutValue(Proto(fn), Encode(w, U64Bytes)),
                      libOut |-> w ]

Invoke(fn) == fn \in DeclaredNames /\ \E a \in ArgsOf(fn) : Call(fn, a)

libzfs_core_init == Invoke("libzfs_core_init")
libzfs_core_fini == Invoke("libzfs_core_fini")
lzc_snapshot == Invoke("lzc_snapshot")
lzc_create == Invoke("lzc_create")
lzc_clone == Invoke("lzc_clone")
lzc_destroy_snaps == Invoke("lzc_destroy_snaps")
lzc_bookmark == Invoke("lzc_bookmark")
lzc_get_bookmarks == Invoke("lzc_get_bookmarks")
lzc_destroy_bookmarks == Invoke("lzc_destroy_bookmarks")
lzc_snaprange_space == Invoke("lzc_snaprange_space")
lzc_hold == Invoke("lzc_hold")
lzc_release == Invoke("lzc_release")
lzc_get_holds == Invoke("lzc_get_holds")
lzc_send == Invoke("lzc_send")
lzc_receive == Invoke("lzc_receive")
lzc_send_space == Invoke("lzc_send_space")
lzc_exists == Invoke("lzc_exists")
lzc_rollback == Invoke("lzc_rollback")
lzc_promote == Invoke("lzc_promote")
lzc_rename == Invoke("lzc_rename")
lzc_destroy_one == Invoke("lzc_destroy_one")
lzc_inherit == Invoke("lzc_inherit")
lzc_set_props == Invoke("lzc_set_props")
lzc_list == Invoke("lzc_list")

Next ==
    \/ libzfs_core_init
    \/ libzfs_core_fini
    \/ lzc_snapshot
    \/ lzc_create
    \/ lzc_clone
    \/ lzc_destroy_snaps
    \/ lzc_bookmark
    \/ lzc_get_bookmarks
    \/ lzc_destroy_bookmarks
    \/ lzc_snaprange_space
    \/ lzc_hold
    \/ lzc_release
    \/ lzc_get_holds
    \/ lzc_send
    \/ lzc_receive
    \/ lzc_send_space
    \/ lzc_exists
    \/ lzc_rollback
    \/ lzc_promote
    \/ lzc_rename
    \/ lzc_destroy_one
    \/ lzc_inherit
    \/ lzc_set_props
    \/ lzc_list

Spec == Init /\ [][Next]_vars

----------------------------------------------------------------------------
(* Properties *)

IntType == [bytes |-> SizeofInt, signed |-> TRUE]

FitsInt(v) == v # NoValue /\ \A i \in (SizeofInt + 1)..U64Bytes : v.mag[i] = 0

Called == call.fn # "none"

\* C2, as stated: every declared operation hands the caller an integer
\* return code, the library's own, unchanged.
C2_EveryOperationReturnsACode ==
    Called => (result.ret # NoValue /\ result.ret = result.libRet)

\* C2, amended: libzfs_core_fini is declared void and hands the caller no
\* code; every other declared operation is declared int (lzc_exists
\* boolean_t, which is int) and the caller receives the int-width value the
\* library returned, unchanged.
C2_CodePassedThroughExceptFini ==
    /\ \A i \in DOMAIN Prototypes :
          Prototypes[i].ret =
             CASE Prototypes[i].name = "libzfs_core_fini" -> "void"
               [] Prototypes[i].name = "lzc_exists" -> "boolean_t"
               [] OTHER -> "int"
    /\ call.fn = "libzfs_core_fini" => result.ret = NoValue
    /\ (Called /\ call.fn # "libzfs_core_fini") =>
          /\ TypeOf(Proto(call.fn).ret) = IntType
          /\ FitsInt(result.ret)
          /\ result.ret = result.libRet

\* the library fails lzc_snapshot with ENOENT and the caller sees ENOENT
C2_Witness ==
    /\ call.fn = "lzc_snapshot"
    /\ result.libRet = Val(FALSE, <<2>>)
    /\ result.ret = Val(FALSE, <<2>>)

\* C3: the enumerators of dmu_objset_type_t have the values 0..6 in declared
\* order, pairwise distinct, the sentinel DMU_OST_NUMTYPES being the number
\* of enumerators before it; these are the values lzc_create receives.
C3_DmuObjsetTypeValues ==
    /\ Enumerator(dmu_objset_type_t, "DMU_OST_NONE") = 0
    /\ Enumerator(dmu_objset_type_t, "DMU_OST_META") = 1
    /\ Enumerator(dmu_objset_type_t, "DMU_OST_ZFS") = 2
    /\ Enumerator(dmu_objset_type_t, "DMU_OST_ZVOL") = 3
    /\ Enumerator(dmu_objset_type_t, "DMU_OST_OTHER") = 4
    /\ Enumerator(dmu_objset_type_t, "DMU_OST_ANY") = 5
    /\ Enumerator(dmu_objset_type_t, "DMU_OST_NUMTYPES") = 6
    /\ Cardinality(EnumValues(dmu_objset_type_t)) = Len(dmu_objset_type_t)
    /\ Enumerator(dmu_objset_type_t, "DMU_OST_NUMTYPES") = Len(dmu_objset_type_t) - 1
    /\ call.fn = "lzc_create" =>
          \A i \in DOMAIN libCalls :
             libCalls[i].args[2] \in 0..Enumerator(dmu_objset_type_t, "DMU_OST_NUMTYPES")

\* lzc_create is asked for a volume and the library receives 3
C3_Witness ==
    /\ call.fn = "lzc_create"
    /\ call.args[2] = Enumerator(dmu_objset_type_t, "DMU_OST_ZVOL")
    /\ libCalls # <<>>
    /\ libCalls[1].args[2] = 3

\* C4: the lzc_send_flags values are 1 and 2 and share no bit, so the OR of
\* any subset of the flags determines the subset and each flag can be
\* tested on its own in the value lzc_send receives.
C4_SendFlagsAreABitmask ==
    /\ Enumerator(lzc_send_flags, "LZC_SEND_FLAG_EMBED_DATA") = 1
    /\ Enumerator(lzc_send_flags, "LZC_SEND_FLAG_LARGE_BLOCK") = 2
    /\ BitAnd(Enumerator(lzc_send_flags, "LZC_SEND_FLAG_EMBED_DATA"),
              Enumerator(lzc_send_flags, "LZC_SEND_FLAG_LARGE_BLOCK")) = 0
    /\ \A S \in SUBSET EnumNames(lzc_send_flags) : FlagsSet(SendFlagsArg(S)) = S
    /\ call.fn = "lzc_send" =>
          \A i \in DOMAIN libCalls :
             /\ libCalls[i].args[4] \in 0..3
             /\ \A S \in SUBSET EnumNames(lzc_send_flags) :
                   SendFlagsArg(S) = libCalls[i].args[4] => S = FlagsSet(libCalls[i].args[4])

\* lzc_send is called with both flags and the library finds both set
C4_Witness ==
    /\ call.fn = "lzc_send"
    /\ libCalls # <<>>
    /\ libCalls[1].args[4] = 3
    /\ FlagsSet(libCalls[1].args[4]) = EnumNames(lzc_send_flags)

SpecOperations ==
    { "lzc_create", "lzc_clone", "lzc_rename", "lzc_promote", "lzc_destroy_one",
      "lzc_destroy_snaps", "lzc_snapshot", "lzc_exists", "lzc_snaprange_space",
      "lzc_bookmark", "lzc_get_bookmarks", "lzc_destroy_bookmarks",
      "lzc_hold", "lzc_release", "lzc_get_holds",
      "lzc_send", "lzc_send_space", "lzc_receive",
      "lzc_set_props", "lzc_inherit", "lzc_list", "lzc_rollback" }

\* C8: every operation the specification lists has a declared entry point,
\* and every call made is a call of a declared entry point.
C8_SurfaceIsComplete ==
    /\ SpecOperations \subseteq DeclaredNames
    /\ Called => call.fn \in DeclaredNames

\* the last listed operation, lzc_list, has been called
C8_Witness ==
    /\ call.fn = "lzc_list"
    /\ call.fn \in SpecOperations
    /\ libCalls # <<>>

\* C9: values cross with the declared width and signedness: uint64_t is
\* unsigned and 64 bits wide, so what the library writes through the
\* uint64_t * of lzc_snaprange_space and lzc_send_space reaches the caller
\* unchanged; boolean_t and the int codes are signed and int wide.
C9_WidthAndSignedness ==
    /\ uint64_t = [bytes |-> U64Bytes, signed |-> FALSE]
    /\ boolean_t = IntType
    /\ TypeOf("int") = IntType
    /\ call.fn \in {"lzc_snaprange_space", "lzc_send_space"} =>
          /\ result.out # NoValue
          /\ ~result.out.neg
          /\ result.out = result.libOut
    /\ (Called /\ Proto(call.fn).ret # "void") => FitsInt(result.ret)

\* the library reports 2^64 - 1 bytes and the caller reads 2^64 - 1
C9_Witness ==
    /\ call.fn = "lzc_send_space"
    /\ result.libOut = Val(FALSE, <<255, 255, 255, 255, 255, 255, 255, 255>>)
    /\ result.out = result.libOut

====
